---- MODULE Spec2Model ----
(***************************************************************************)
(* A state-machine model of the envelope client: Socket (src/src/Socket.ts)*)
(* and the channel subscription manager useChannels                        *)
(* (src/unnamed/part_002, the version that registers the readyState        *)
(* handler and that the tests of src/unnamed/part_001 exercise).           *)
(*                                                                         *)
(* The program is single threaded: every action below is one macrotask    *)
(* (an API call of the application, a transport event, a timer firing)     *)
(* together with the microtasks it leaves behind.  Each code function is   *)
(* an operator from a state record to a state record, so that a function   *)
(* calling another is an operator applied inside another.                  *)
(***************************************************************************)
EXTENDS Integers, Sequences, FiniteSets, TLC

---------------------------------------------------------------------------
(* Bounds of the model *)

\* Cap of Socket.messageID: the number of call() invocations explored.
MaxCalls == 2
\* Cap of the consumer id generator count().
MaxConsumers == 3
\* Cap of the number of connect() invocations explored.
MaxConnects == 2
\* Cap of the length of Socket.heartbeats.
MaxHeartbeats == 2
\* Cap of the number of send()/respond() invocations made by the application.
MaxSends == 1
\* Cap of the number of readyState listeners the application registers.
MaxListeners == 1

---------------------------------------------------------------------------
(* Program constants *)

DEFAULT_CONFIG == [timeout |-> 20000]
DEFAULT_OPTIONS == [leaveDelay |-> 5000]

\* SubscriptionStatus
None == 0
Subscribing == 1
Subscribed == 2

\* State
Success == "s"
Failed == "f"
Queued == "q"
Running == "r"

\* Time advances in steps of Quantum milliseconds.
Quantum == DEFAULT_CONFIG.timeout

\* Channel identities used by the application.
Channels == {[channel_type |-> "test", pk |-> 1], [channel_type |-> "test", pk |-> 42]}

\* A missing optional value (undefined / null) is the empty sequence, a
\* present one the one-element sequence.
Undefined == <<>>
Some(v) == <<v>>

\* A timer handle: armed or not, and the milliseconds left until it is due.
NoTimer == [armed |-> FALSE, left |-> 0]
setTimeout(ms) == [armed |-> TRUE, left |-> ms]

\* No error thrown.
NoError == "none"

---------------------------------------------------------------------------
VARIABLES
    ws,              \* readyState of Socket.ws: "none" while ws is undefined
    attached,        \* the handlers set by connect() are still on Socket.ws
    _readyState,     \* Socket._readyState, "undefined" before the first update
    messageID,       \* Socket.messageID
    callbacks,       \* Socket.callbacks: the set of its keys
    timeoutId,       \* timeoutId of each call's closure
    callTimeout,     \* myConfig.timeout of each call's closure
    promise,         \* state of the ProgressPromise of each call
    awaiting,        \* which performSubscribe awaits each call
    heartbeats,      \* Socket.heartbeats
    leaked,          \* the intervals running that no heartbeat entry refers to
    typeHandlers,    \* Socket.typeHandlers
    eventHandlers,   \* Socket.eventHandlers.readyState
    subscriptions,   \* the subscriptions Map of useChannels, in insertion order
    subscriptionIds, \* last value yielded by count()
    handles,         \* the {promise, leave} handles returned to the application
    \* what the last step did
    out,             \* frames handed to ws.send
    invoked,         \* type handler and hook invocations
    emitted,         \* subscribed-changed events
    notified,        \* readyState notifications
    thrown,          \* error thrown to the caller of the API
    unhandled,       \* rejections of promises nobody holds
    returned,        \* what the API call returned
    progressed,      \* payloads forwarded to progress channels
    received,        \* the frame of the message event, if the step was one
    args,            \* the arguments of the registry call, if the step was one
    op,              \* the API call, event or timer the step was
    \* bookkeeping of the environment and of the properties
    connId,          \* number of connect() so far
    callConn,        \* the connection each request was transmitted on (0: none)
    nSends,          \* number of send()/respond() by the application
    sinceLeave,      \* milliseconds since leave() last armed each leave timer
    leaveDelayOf,    \* the delay that leave() call asked for
    sinceFrame,      \* milliseconds since each call was sent or last progressed,
                     \* kept through the step that ends the call
    sinceCall,       \* milliseconds since each call was sent, kept likewise
    opens,           \* number of open events so far
    cancelled,       \* channels whose armed leave timer the step cleared unfired
    subReqs,         \* channel.subscribe requests per channel in the current window
    openSubs,        \* subscribe() calls made while Open per channel, same window
    acked,           \* the channels whose subscribe request was acknowledged since
                     \* the last leave sent and the last notified state but Open
    announced        \* the channels whose last subscribed-changed event said true

progVars == <<ws, attached, _readyState, messageID, callbacks, timeoutId, callTimeout,
              promise, awaiting, heartbeats, leaked, typeHandlers, eventHandlers,
              subscriptions, subscriptionIds, handles>>
stepVars == <<out, invoked, emitted, notified, thrown, unhandled, returned, progressed,
              received, args, op>>
bookVars == <<connId, callConn, nSends, sinceLeave, leaveDelayOf, sinceFrame, sinceCall,
              opens, cancelled, subReqs, openSubs, acked, announced>>
vars == <<progVars, stepVars, bookVars>>

\* String(n) of a correlation id: its decimal numeral.
String(n) == ToString(n)

\* The program state as one record; the step fields start empty.
Cur ==
    [ws |-> ws, attached |-> attached, _readyState |-> _readyState,
     messageID |-> messageID, callbacks |-> callbacks, timeoutId |-> timeoutId,
     callTimeout |-> callTimeout, promise |-> promise, awaiting |-> awaiting,
     heartbeats |-> heartbeats, leaked |-> leaked,
     typeHandlers |-> typeHandlers,
     eventHandlers |-> eventHandlers, subscriptions |-> subscriptions,
     subscriptionIds |-> subscriptionIds, handles |-> handles,
     out |-> <<>>, invoked |-> <<>>, emitted |-> <<>>, notified |-> <<>>,
     thrown |-> NoError, unhandled |-> <<>>, returned |-> Undefined,
     progressed |-> <<>>, received |-> Undefined, args |-> <<>>,
     op |-> "new"]

---------------------------------------------------------------------------
(* The transport: a WHATWG WebSocket *)

\* WebSocket.send: throws InvalidStateError while CONNECTING, transmits while
\* OPEN and discards the data while CLOSING or CLOSED.  `this.ws?.send` does
\* nothing while ws is undefined.
wsSend(s, frame) ==
    IF s.ws = "none" THEN s
    ELSE IF s.ws = "CONNECTING" THEN [s EXCEPT !.thrown = "InvalidStateError"]
    ELSE [s EXCEPT !.out = Append(@, frame)]

\* WebSocket.close: CONNECTING and OPEN become CLOSING, otherwise nothing.
wsClose(state) == IF state \in {"CONNECTING", "OPEN"} THEN "CLOSING" ELSE state

\* JSON.stringify of an object: members whose value is undefined are left out.
stringify(obj) ==
    [k \in {f \in DOMAIN obj : obj[f] # Undefined} |-> obj[k][1]]

\* t.split('.')[0] of a type tag; a tag is the sequence of its dot-separated
\* segments, the empty string being the one empty segment.
EmptyTag == <<"">>
split0(t) == t[1]

---------------------------------------------------------------------------
(* ProgressPromise: resolve / reject / progress *)

\* Only the first of resolve and reject has effect.
settle(s, i, how) ==
    IF s.promise[i] = "pending" THEN [s EXCEPT !.promise[i] = how] ELSE s

\* progress(update) reaches the observers only before the resolution.
progress(s, i, update) ==
    IF s.promise[i] = "pending" THEN [s EXCEPT !.progressed = Append(@, <<i, update>>)] ELSE s

---------------------------------------------------------------------------
(* Socket *)

\* Socket.callConfig of a Socket constructed without opts.config.
callConfig == DEFAULT_CONFIG

\* { ...this.callConfig, ...config }
mergeConfig(base, config) ==
    IF config = Undefined THEN base ELSE [timeout |-> config[1].timeout]

isOpen(s) == s.ws = "OPEN"

\* assertOpen is declared async: its throw rejects the promise it returns,
\* which no caller awaits, so the caller goes on.
assertOpen(s) ==
    IF ~isOpen(s) THEN [s EXCEPT !.unhandled = Append(@, "NotOpen")] ELSE s

setInterval(ms) == [armed |-> TRUE, left |-> ms]

heartbeatOff(s) ==
    LET hb == s.heartbeats
    IN  [s EXCEPT !.heartbeats = [k \in DOMAIN hb |-> [hb[k] EXCEPT !.intervalID = NoTimer]]]

\* Traffic that restarts the interval of every entry, whatever its direction.
heartbeatAnyDirection(s, direction) ==
    LET hb == s.heartbeats
    IN  IF direction = "off" THEN heartbeatOff(s)
        ELSE [s EXCEPT !.heartbeats = [k \in DOMAIN hb |->
                [hb[k] EXCEPT !.intervalID = setInterval(hb[k].ms)]]]

heartbeat(s, direction) ==
    LET hb == s.heartbeats
    IN  IF direction = "off" THEN heartbeatOff(s)
        ELSE [s EXCEPT !.heartbeats = [k \in DOMAIN hb |->
                IF hb[k].direction # Undefined /\ hb[k].direction # Some(direction)
                THEN hb[k]
                ELSE [hb[k] EXCEPT !.intervalID = setInterval(hb[k].ms)]]]

\* setRejectTimeout of call's closure i.
\* A call whose timeout is never armed.
setRejectTimeoutNever(s, i) == s

setRejectTimeout(s, i) ==
    IF s.callTimeout[i] = 0 THEN s
    ELSE [s EXCEPT !.timeoutId[i] = setTimeout(s.callTimeout[i])]

\* A call that takes its correlation id from a counter that starts over.
callFromOne(s, t, p, config) ==
    LET s1 == heartbeat(assertOpen(s), "outgoing")
        myConfig == mergeConfig(callConfig, config)
        n  == 1
        i  == String(n)
        s2 == wsSend([s1 EXCEPT !.messageID = n],
                     stringify([t |-> Some(t), i |-> Some(i), p |-> p]))
    IN  IF s2.thrown # NoError THEN s2
        ELSE LET s3 == setRejectTimeout(
                          [s2 EXCEPT !.callTimeout[i] = myConfig.timeout,
                                     !.promise[i] = "pending"], i)
             IN  [s3 EXCEPT !.callbacks = @ \cup {i}, !.returned = Some(i)]

\* Socket.call up to the construction of the ProgressPromise.
call(s, t, p, config) ==
    LET s1 == heartbeat(assertOpen(s), "outgoing")
        myConfig == mergeConfig(callConfig, config)
        n  == s1.messageID + 1
        i  == String(n)
        s2 == wsSend([s1 EXCEPT !.messageID = n],
                     stringify([t |-> Some(t), i |-> Some(i), p |-> p]))
    IN  IF s2.thrown # NoError THEN s2
        ELSE LET s3 == setRejectTimeout(
                          [s2 EXCEPT !.callTimeout[i] = myConfig.timeout,
                                     !.promise[i] = "pending"], i)
             IN  [s3 EXCEPT !.callbacks = @ \cup {i}, !.returned = Some(i)]

send(s, t, p) ==
    LET s1 == heartbeat(assertOpen(s), "outgoing")
    IN  wsSend(s1, stringify([t |-> Some(t), p |-> p]))

\* i is a string or null (Undefined here), and JSON keeps a null member.
respond(s, t, i, st, p) ==
    LET s1 == heartbeat(assertOpen(s), "outgoing")
    IN  wsSend(s1, stringify([t |-> Some(t), i |-> Some(IF i = Undefined THEN "null" ELSE i[1]),
                              p |-> p, s |-> Some(st)]))

---------------------------------------------------------------------------
(* useChannels *)

\* The Map key `${channel.channel_type}/${channel.pk}` of a channel.
path(channel) == <<channel.channel_type, "/", channel.pk>>

has(subs, channel) == \E k \in DOMAIN subs : path(subs[k].channel) = path(channel)
indexOf(subs, channel) == CHOOSE k \in DOMAIN subs : path(subs[k].channel) = path(channel)

\* new Subscription(channel)
Subscription(channel) ==
    [channel |-> channel, consumers |-> {}, status |-> None, leaveTimeout |-> NoTimer]

shouldLeave(sub) == sub.consumers = {} /\ sub.status = Subscribed

\* The rule without the Subscribing state: every status but Subscribed asks.
shouldSubscribeUnlessSubscribed(sub) == sub.consumers # {} /\ sub.status # Subscribed

shouldSubscribe(sub) == sub.consumers # {} /\ sub.status = None

getSubscription(s, channel) ==
    IF has(s.subscriptions, channel) THEN s
    ELSE [s EXCEPT !.subscriptions = Append(@, Subscription(channel))]

emitSubscribedEvents(s, channel, subscribed) ==
    [s EXCEPT !.emitted = Append(@, [channelType |-> channel.channel_type,
                                     pk |-> channel.pk, subscribed |-> subscribed])]

\* An async function that throws returns a rejected promise instead.
asyncThrow(s) == [s EXCEPT !.thrown = NoError, !.unhandled = Append(@, s.thrown)]

\* A leave that sends the request and keeps the status.
performLeaveKeepingStatus(s, k) ==
    LET channel == s.subscriptions[k].channel
        s1 == send(s, <<"channel", "leave">>, Some(channel))
    IN  IF s1.thrown # NoError THEN asyncThrow(s1)
        ELSE emitSubscribedEvents(s1, channel, FALSE)

performLeave(s, k) ==
    LET channel == s.subscriptions[k].channel
        s1 == send(s, <<"channel", "leave">>, Some(channel))
    IN  IF s1.thrown # NoError THEN asyncThrow(s1)
        ELSE emitSubscribedEvents([s1 EXCEPT !.subscriptions[k].status = None],
                                  channel, FALSE)

\* performSubscribe up to its await; the rest is performSubscribeResume.
performSubscribe(s, k) ==
    LET channel == s.subscriptions[k].channel
        s1 == call([s EXCEPT !.subscriptions[k].status = Subscribing],
                   <<"channel", "subscribe">>, Some(channel), Undefined)
    IN  IF s1.thrown # NoError THEN asyncThrow(s1)
        ELSE [s1 EXCEPT !.awaiting[s1.returned[1]] = Some(k)]

\* performSubscribe after its await, once the call has resolved.
performSubscribeResume(s, k) ==
    emitSubscribedEvents([s EXCEPT !.subscriptions[k].status = Subscribed],
                         s.subscriptions[k].channel, TRUE)

\* subscribe() that asks the far end whatever the state of the connection.
subscribeWhateverState(s, channel) ==
    LET id == s.subscriptionIds + 1
        s1 == getSubscription([s EXCEPT !.subscriptionIds = id], channel)
        k  == indexOf(s1.subscriptions, channel)
        s2 == [s1 EXCEPT !.subscriptions[k].consumers = @ \cup {id},
                         !.subscriptions[k].leaveTimeout = NoTimer]
    IN  IF shouldSubscribe(s2.subscriptions[k])
        THEN [performSubscribe(s2, k) EXCEPT
                 !.returned = Some([id |-> id, k |-> k, promise |-> "performSubscribe"])]
        ELSE [s2 EXCEPT !.returned = Some([id |-> id, k |-> k, promise |-> "resolved"])]

\* subscribe() that leaves a pending leave timer running.
subscribeKeepingTimer(s, channel) ==
    LET id == s.subscriptionIds + 1
        s1 == getSubscription([s EXCEPT !.subscriptionIds = id], channel)
        k  == indexOf(s1.subscriptions, channel)
        s2 == [s1 EXCEPT !.subscriptions[k].consumers = @ \cup {id}]
    IN  IF shouldSubscribe(s2.subscriptions[k]) /\ isOpen(s2)
        THEN [performSubscribe(s2, k) EXCEPT
                 !.returned = Some([id |-> id, k |-> k, promise |-> "performSubscribe"])]
        ELSE [s2 EXCEPT !.returned = Some([id |-> id, k |-> k, promise |-> "resolved"])]

subscribe(s, channel) ==
    LET id == s.subscriptionIds + 1
        s1 == getSubscription([s EXCEPT !.subscriptionIds = id], channel)
        k  == indexOf(s1.subscriptions, channel)
        s2 == [s1 EXCEPT !.subscriptions[k].consumers = @ \cup {id},
                         !.subscriptions[k].leaveTimeout = NoTimer]
    IN  IF shouldSubscribe(s2.subscriptions[k]) /\ isOpen(s2)
        THEN [performSubscribe(s2, k) EXCEPT
                 !.returned = Some([id |-> id, k |-> k, promise |-> "performSubscribe"])]
        ELSE [s2 EXCEPT !.returned = Some([id |-> id, k |-> k, promise |-> "resolved"])]

\* The delay leave arms its timer with.
leaveDelay(delay) == IF delay # Undefined THEN delay[1] ELSE DEFAULT_OPTIONS.leaveDelay

\* leave() that arms the timer whoever else still consumes the channel.
leaveWhoeverRemains(s, id, k, delay) ==
    [s EXCEPT !.subscriptions[k].consumers = @ \ {id},
              !.subscriptions[k].leaveTimeout = setTimeout(leaveDelay(delay))]

\* The leave closure of the handle of consumer id on subscription k.
leave(s, id, k, delay) ==
    LET s1 == [s EXCEPT !.subscriptions[k].consumers = @ \ {id}]
    IN  IF ~shouldLeave(s1.subscriptions[k]) THEN s1
        ELSE [s1 EXCEPT !.subscriptions[k].leaveTimeout = setTimeout(leaveDelay(delay))]

RECURSIVE resubscribe(_, _)
\* for (const { channel, shouldSubscribe } of subscriptions.values()), from entry k
resubscribe(s, k) ==
    IF k > Len(s.subscriptions) THEN s
    ELSE resubscribe(IF shouldSubscribe(s.subscriptions[k])
                     THEN subscribe(s, s.subscriptions[k].channel)
                     ELSE s,
                     k + 1)

\* A readyState handler that forgets the statuses and asks for nothing on Open.
channelsReadyStateResetOnly(s, readyState) ==
    LET subs == s.subscriptions
    IN  IF readyState = "OPEN" THEN s
        ELSE [s EXCEPT !.subscriptions = [k \in DOMAIN subs |-> [subs[k] EXCEPT !.status = None]]]

\* A readyState handler that forgets the statuses only once the connection is
\* Closed.
channelsReadyStateOnClosed(s, readyState) ==
    IF readyState = "OPEN" THEN resubscribe(s, 1)
    ELSE IF readyState # "CLOSED" THEN s
    ELSE LET subs == s.subscriptions
         IN  [s EXCEPT !.subscriptions = [k \in DOMAIN subs |-> [subs[k] EXCEPT !.status = None]]]

\* function* getSubscribedChannels()
getSubscribedChannels(s) ==
    LET isSubscribed(sub) == sub.status = Subscribed
        those == SelectSeq(s.subscriptions, isSubscribed)
    IN  [k \in DOMAIN those |-> those[k].channel]

\* The handler useChannels registers with socket.on('readyState', ...).
channelsReadyState(s, readyState) ==
    IF readyState = "OPEN" THEN resubscribe(s, 1)
    ELSE LET subs == s.subscriptions
         IN  [s EXCEPT !.subscriptions = [k \in DOMAIN subs |-> [subs[k] EXCEPT !.status = None]]]

---------------------------------------------------------------------------
(* Socket: ready state and inbound frames *)

RECURSIVE notify(_, _, _)
\* for (const handler of this.eventHandlers.readyState) handler({ readyState })
notify(s, hs, readyState) ==
    IF hs = <<>> THEN s
    ELSE notify(IF Head(hs) = "useChannels" THEN channelsReadyState(s, readyState)
                ELSE [s EXCEPT !.notified = Append(@, <<Head(hs), readyState>>)],
                Tail(hs), readyState)

updateReadyState(s) ==
    IF s.ws = "none" \/ s._readyState = s.ws THEN s
    ELSE notify([s EXCEPT !._readyState = s.ws], s.eventHandlers, s.ws)

isBatchMessage(msg) == msg.t = <<"s", "batch">>

isSubscribedMessage(msg) == msg.s = Some(Success) /\ msg.t = <<"channel", "subscribed">>

\* isValidationErrorPayload: 'errors' in p
isValidationErrorPayload(p) == "errors" \in DOMAIN p

\* The response listener when a progress frame leaves the running timeout as
\* it is.
callbackKeepingDeadline(s, i, data) ==
    LET del == [s EXCEPT !.timeoutId[i] = NoTimer, !.callbacks = @ \ {i}]
    IN  IF data.s = Some(Failed)
        THEN IF data.p = Undefined
             THEN [del EXCEPT !.thrown = "TypeError"]
             ELSE settle(del, i, IF isValidationErrorPayload(data.p[1])
                                 THEN "ValidationError" ELSE "Error")
        ELSE IF data.s \in {Some(Queued), Some(Running)}
        THEN IF data.p # Undefined THEN progress(s, i, data.p[1]) ELSE s
        ELSE IF data.s = Some(Success)
        THEN settle(del, i, "resolved")
        ELSE settle(del, i, "Unknown socket state")

\* A response listener that leaves its timeout running.
callbackKeepingTimer(s, i, data) ==
    LET del == [s EXCEPT !.callbacks = @ \ {i}]
    IN  IF data.s = Some(Failed)
        THEN IF data.p = Undefined
             THEN [del EXCEPT !.thrown = "TypeError"]
             ELSE settle(del, i, IF isValidationErrorPayload(data.p[1])
                                 THEN "ValidationError" ELSE "Error")
        ELSE IF data.s \in {Some(Queued), Some(Running)}
        THEN LET s2 == setRejectTimeout(s, i)
             IN  IF data.p # Undefined THEN progress(s2, i, data.p[1]) ELSE s2
        ELSE IF data.s = Some(Success)
        THEN settle(del, i, "resolved")
        ELSE settle(del, i, "Unknown socket state")

\* The response listener call() registers under correlation id i.
callback(s, i, data) ==
    LET s1 == [s EXCEPT !.timeoutId[i] = NoTimer]
        del == [s1 EXCEPT !.callbacks = @ \ {i}]
    IN  IF data.s = Some(Failed)
        THEN IF data.p = Undefined
             THEN [del EXCEPT !.thrown = "TypeError"]   \* 'errors' in null
             ELSE settle(del, i, IF isValidationErrorPayload(data.p[1])
                                 THEN "ValidationError" ELSE "Error")
        ELSE IF data.s \in {Some(Queued), Some(Running)}
        THEN LET s2 == setRejectTimeout(s1, i)
             IN  IF data.p # Undefined THEN progress(s2, i, data.p[1]) ELSE s2
        ELSE IF data.s = Some(Success)
        THEN settle(del, i, "resolved")
        ELSE settle(del, i, "Unknown socket state")

RECURSIVE handleTypeMessage(_, _), handleBatchMessage(_, _, _), invoke(_, _, _),
          invokeAll(_, _, _), invokeEach(_, _, _, _, _)

\* handler(msg) for one registered type handler.  The handler the constructor
\* registers for 's' unwraps batches; the application's handlers are opaque.
invoke(s, handler, msg) ==
    IF handler = "system"
    THEN IF isBatchMessage(msg) THEN handleBatchMessage(s, msg.p[1], msg.i) ELSE s
    ELSE [s EXCEPT !.invoked = Append(@, <<handler, msg>>)]

\* for (const handler of handlers) handler(msg)
invokeAll(s, handlers, msg) ==
    IF handlers = <<>> THEN s
    ELSE invokeAll(invoke(s, Head(handlers), msg), Tail(handlers), msg)

\* for (const p of payloads) handler({ t, i, p })
invokeEach(s, handler, t, i, payloads) ==
    IF payloads = <<>> THEN s
    ELSE invokeEach(invoke(s, handler, [t |-> t, i |-> i, p |-> Head(payloads)]),
                    handler, t, i, Tail(payloads))

RECURSIVE batchLoop(_, _, _, _, _)
\* for (const handler of handlers) for (const p of payloads) ...
batchLoop(s, handlers, t, i, payloads) ==
    IF handlers = <<>> THEN s
    ELSE batchLoop(invokeEach(s, Head(handlers), t, i, payloads),
                   Tail(handlers), t, i, payloads)

\* Unwrapping that drops the correlation id of the batch frame.
handleBatchMessageWithoutId(s, batch, i) ==
    LET contentType == split0(batch.t)
        handlers == s.typeHandlers[contentType]
    IN  IF handlers = Undefined THEN s
        ELSE batchLoop(s, handlers[1], batch.t, Undefined, batch.payloads)

handleBatchMessage(s, batch, i) ==
    LET contentType == split0(batch.t)
        handlers == s.typeHandlers[contentType]
    IN  IF handlers = Undefined THEN s
        ELSE batchLoop(s, handlers[1], batch.t, i, batch.payloads)

\* A dispatch that hands a batch frame to the handlers of its sub-type too.
handleTypeMessageOfSubType(s, msg) ==
    IF msg.t = Undefined \/ msg.t = EmptyTag THEN s
    ELSE LET type == split0(msg.t)
             handlers == IF s.typeHandlers[type] = Undefined THEN <<>>
                         ELSE s.typeHandlers[type][1]
             sub == IF isBatchMessage(msg) /\ s.typeHandlers[split0(msg.p[1].t)] # Undefined
                    THEN s.typeHandlers[split0(msg.p[1].t)][1] ELSE <<>>
         IN  invokeAll(s, handlers \o sub, msg)

handleTypeMessage(s, msg) ==
    IF msg.t = Undefined \/ msg.t = EmptyTag THEN s
    ELSE LET type == split0(msg.t)
             handlers == IF s.typeHandlers[type] = Undefined THEN <<>>
                         ELSE s.typeHandlers[type][1]
         IN  invokeAll(s, handlers, msg)

RECURSIVE appState(_, _)
\* for (const payload of msg.p.app_state ?? []) this.handleTypeMessage(payload)
appState(s, entries) ==
    IF entries = <<>> THEN s
    ELSE appState(handleTypeMessage(s, Head(entries)), Tail(entries))

\* this.options.beforeAppStateHandler?.({ channelType, pk })
beforeAppStateHandler(s, p) ==
    [s EXCEPT !.invoked = Append(@, <<"beforeAppStateHandler",
                                      [channelType |-> p.channel_type, pk |-> p.pk]>>)]

\* A message callback that dispatches the snapshot before it calls the hook.
onmessageSnapshotFirst(s, msg) ==
    LET s1 == heartbeat(updateReadyState(s), "incoming")
        s2 == IF msg.i # Undefined /\ msg.i # Some("") /\ msg.i[1] \in s1.callbacks
              THEN callback(s1, msg.i[1], msg) ELSE s1
    IN  IF s2.thrown # NoError THEN s2
        ELSE IF isSubscribedMessage(msg)
        THEN beforeAppStateHandler(
                 appState(s2, IF msg.p[1].app_state = Undefined THEN <<>>
                              ELSE msg.p[1].app_state[1]),
                 msg.p[1])
        ELSE handleTypeMessage(s2, msg)

\* ws.onmessage, after JSON.parse.
onmessage(s, msg) ==
    LET s1 == heartbeat(updateReadyState(s), "incoming")
        s2 == IF msg.i # Undefined /\ msg.i # Some("") /\ msg.i[1] \in s1.callbacks
              THEN callback(s1, msg.i[1], msg) ELSE s1
    IN  IF s2.thrown # NoError THEN s2
        ELSE IF isSubscribedMessage(msg)
        THEN appState(beforeAppStateHandler(s2, msg.p[1]),
                      IF msg.p[1].app_state = Undefined THEN <<>> ELSE msg.p[1].app_state[1])
        ELSE handleTypeMessage(s2, msg)

\* A timeout callback that abandons every pending call.
rejectTimeoutOfAll(s, i) ==
    settle([s EXCEPT !.callbacks = {}, !.timeoutId = [j \in DOMAIN s.timeoutId |-> NoTimer]],
           i, "Request timed out")

\* The timeout callback of call i.
rejectTimeout(s, i) ==
    settle([s EXCEPT !.callbacks = @ \ {i}, !.timeoutId[i] = NoTimer], i, "Request timed out")

RECURSIVE microtasks(_, _, _)
\* The continuations run after the macrotask: a performSubscribe awaiting a call
\* that this step settled resumes if it resolved, and rejects otherwise.
microtasks(before, s, ids) ==
    IF ids = {} THEN s
    ELSE LET i == CHOOSE x \in ids : \A y \in ids : x <= y
             key == String(i)
             s1 == IF before.promise[key] = "pending" /\ s.promise[key] # "pending"
                      /\ s.awaiting[key] # Undefined
                   THEN IF s.promise[key] = "resolved"
                        THEN performSubscribeResume(s, s.awaiting[key][1])
                        ELSE [s EXCEPT !.unhandled = Append(@, s.promise[key])]
                   ELSE s
         IN  microtasks(before, s1, ids \ {i})

---------------------------------------------------------------------------
(* Heartbeat and type handler registries *)

addHeartbeat(s, cb, ms, direction) ==
    [s EXCEPT !.heartbeats = Append(@,
        [callback |-> cb, direction |-> direction, ms |-> ms,
         intervalID |-> IF s.ws = "OPEN" THEN setInterval(ms) ELSE NoTimer])]

\* filter((beat) => !finder(beat))
RECURSIVE filterBeats(_, _)
filterBeats(beats, cb) ==
    IF beats = <<>> THEN <<>>
    ELSE IF Head(beats).callback = cb THEN filterBeats(Tail(beats), cb)
    ELSE <<Head(beats)>> \o filterBeats(Tail(beats), cb)

\* this.heartbeats.find(finder): the index of the first entry with callback cb
find(beats, cb) ==
    CHOOSE k \in DOMAIN beats :
        /\ beats[k].callback = cb
        /\ \A j \in 1 .. (k - 1) : beats[j].callback # cb

\* clearInterval reaches the interval of the first matching entry only, while
\* filter drops every matching entry: the intervals of the later ones go on.
removeHeartbeat(s, cb) ==
    IF ~\E k \in DOMAIN s.heartbeats : s.heartbeats[k].callback = cb THEN s
    ELSE LET beats == s.heartbeats
             first == find(beats, cb)
             cleared == [beats EXCEPT ![first].intervalID = NoTimer]
             running(beat) == beat.callback = cb /\ beat.intervalID.armed
         IN  [s EXCEPT !.heartbeats = filterBeats(cleared, cb),
                       !.leaked = @ \o SelectSeq(cleared, running)]

RECURSIVE without(_, _)
\* handlers.filter((h) => h !== handler)
without(handlers, handler) ==
    IF handlers = <<>> THEN <<>>
    ELSE IF Head(handlers) = handler THEN without(Tail(handlers), handler)
    ELSE <<Head(handlers)>> \o without(Tail(handlers), handler)

\* A registration that does not look for the handler among the registered.
addTypeHandlerAgain(s, name, handler) ==
    LET handlers == IF s.typeHandlers[name] = Undefined THEN <<>> ELSE s.typeHandlers[name][1]
    IN  [s EXCEPT !.typeHandlers[name] = Some(Append(handlers, handler))]

addTypeHandler(s, name, handler) ==
    LET handlers == IF s.typeHandlers[name] = Undefined THEN <<>> ELSE s.typeHandlers[name][1]
    IN  IF \E k \in DOMAIN handlers : handlers[k] = handler THEN s
        ELSE [s EXCEPT !.typeHandlers[name] = Some(Append(handlers, handler))]

removeTypeHandler(s, name, handler) ==
    IF s.typeHandlers[name] = Undefined THEN s
    ELSE [s EXCEPT !.typeHandlers[name] = Some(without(@[1], handler))]

on(s, handler) == [s EXCEPT !.eventHandlers = Append(@, handler)]

off(s, handler) == [s EXCEPT !.eventHandlers = without(@, handler)]

\* Socket.connect
connect(s) ==
    updateReadyState([s EXCEPT !.ws = "CONNECTING", !.attached = TRUE])

\* ws.onerror
onerror(s) == updateReadyState(s)

\* ws.onclose
onclose(s) == heartbeat(updateReadyState(s), "off")

\* ws.onopen
onopen(s) == heartbeat(heartbeat(updateReadyState(s), "incoming"), "outgoing")

\* Socket.close
close(s) ==
    IF s.ws = "none" THEN s
    ELSE updateReadyState([s EXCEPT !.attached = FALSE, !.ws = wsClose(s.ws)])

---------------------------------------------------------------------------
(* Inputs *)

CallKeys == {String(n) : n \in 1 .. MaxCalls}
Namespaces == {"s", "test", "channel", "other"}
\* Namespaces the application registers handlers for
Registered == {"s", "test"}
Handlers == {"h1", "h2"}
Listeners == {"l1"}
Beats == {"ping", "pong"}
Directions == {Undefined, Some("incoming"), Some("outgoing")}
\* Arguments of call(t, p, config)
CallPayloads == {Undefined, Some([x |-> 1])}
CallConfigs == {Undefined, Some([timeout |-> 0])}
\* Arguments of leave(delay)
Delays == {Undefined, Some(0)}
\* Saturation of the elapsed-time bookkeeping.
Horizon == Quantum

\* Frames the far end answers a request with.
ProgressPayloads == {Undefined, Some([curr |-> 1, total |-> 2])}
FailedPayloads == {Undefined, Some([msg |-> "m"]), Some([msg |-> "m", errors |-> <<"e">>])}
AppStates == {Undefined, Some(<<>>),
              Some(<<[t |-> <<"test", "content">>, i |-> Undefined, s |-> Undefined,
                      p |-> Some([n |-> 1])]>>)}

\* Snapshots of a channel.subscribed frame the far end pushes.
Snapshots ==
    AppStates \cup
    {Some(<<[t |-> <<"test", "content">>, i |-> Undefined, s |-> Undefined, p |-> Some([n |-> 2])],
            [t |-> <<"other", "content">>, i |-> Undefined, s |-> Undefined, p |-> Undefined],
            [t |-> Undefined, i |-> Undefined, s |-> Undefined, p |-> Some([n |-> 3])],
            [t |-> <<"s", "x">>, i |-> Undefined, s |-> Undefined, p |-> Undefined],
            [t |-> <<"test", "content">>, i |-> Undefined, s |-> Undefined, p |-> Some([n |-> 1])]>>)}

Responses(i, t) ==
    {[t |-> t, i |-> Some(i), s |-> Some(Success), p |-> Some([ok |-> TRUE])]}
    \cup {[t |-> t, i |-> Some(i), s |-> Some(st), p |-> pl] :
            st \in {Queued, Running}, pl \in ProgressPayloads}
    \cup {[t |-> t, i |-> Some(i), s |-> Some(Failed), p |-> pl] : pl \in FailedPayloads}
    \cup {[t |-> t, i |-> Some(i), s |-> st, p |-> Undefined] : st \in {Undefined, Some("x")}}

SubscribedFrames(i, channel) ==
    {[t |-> <<"channel", "subscribed">>, i |-> i, s |-> Some(Success),
      p |-> Some([channel_type |-> channel.channel_type, pk |-> channel.pk,
                  app_state |-> a])] : a \in AppStates}

BatchPayloads == {<<>>, <<Undefined>>, <<Some([n |-> 1]), Some([n |-> 2])>>,
                  <<Some([n |-> 2]), Undefined, Some([n |-> 1])>>}
BatchTypes == {<<"test", "batch">>, <<"channel", "x">>, <<"other", "batch">>, <<"s", "x">>}

---------------------------------------------------------------------------
(* Initial state: after new Socket(url, opts), with opts.manual or without *)

Constructed ==
    [ws |-> "none", attached |-> FALSE, _readyState |-> "undefined",
     messageID |-> 0, callbacks |-> {},
     timeoutId |-> [i \in CallKeys |-> NoTimer],
     callTimeout |-> [i \in CallKeys |-> 0],
     promise |-> [i \in CallKeys |-> "none"],
     awaiting |-> [i \in CallKeys |-> Undefined],
     heartbeats |-> <<>>, leaked |-> <<>>,
     typeHandlers |-> [n \in Namespaces |-> Undefined],
     eventHandlers |-> <<"useChannels">>,
     subscriptions |-> <<>>, subscriptionIds |-> 0, handles |-> {},
     out |-> <<>>, invoked |-> <<>>, emitted |-> <<>>, notified |-> <<>>,
     thrown |-> NoError, unhandled |-> <<>>, returned |-> Undefined,
     progressed |-> <<>>, received |-> Undefined, args |-> <<>>,
     op |-> "new"]

constructor(manual) ==
    addTypeHandler(IF manual THEN Constructed ELSE connect(Constructed), "s", "system")

\* The program variables and the step variables take the values of record r.
Apply(r) ==
    /\ ws' = r.ws /\ attached' = r.attached /\ _readyState' = r._readyState
    /\ messageID' = r.messageID /\ callbacks' = r.callbacks
    /\ timeoutId' = r.timeoutId /\ callTimeout' = r.callTimeout
    /\ promise' = r.promise /\ awaiting' = r.awaiting
    /\ heartbeats' = r.heartbeats /\ leaked' = r.leaked
    /\ typeHandlers' = r.typeHandlers
    /\ eventHandlers' = r.eventHandlers /\ subscriptions' = r.subscriptions
    /\ subscriptionIds' = r.subscriptionIds /\ handles' = r.handles
    /\ out' = r.out /\ invoked' = r.invoked /\ emitted' = r.emitted
    /\ notified' = r.notified /\ thrown' = r.thrown /\ unhandled' = r.unhandled
    /\ returned' = r.returned /\ progressed' = r.progressed
    /\ received' = r.received /\ args' = r.args /\ op' = r.op

\* Record r as the outcome of the step named name.
Op(r, name) == [r EXCEPT !.op = name]

\* Record r as the outcome of the registry call name(a).
OpOf(r, name, a) == [r EXCEPT !.op = name, !.args = a]

\* The counters of the program stay within the bounds of the model.
Within(r) == r.messageID <= MaxCalls /\ r.subscriptionIds <= MaxConsumers

\* The number of subscriptions the readyState handler resubscribes on Open.
Resubscribed ==
    Cardinality({k \in DOMAIN subscriptions : shouldSubscribe(subscriptions[k])})

\* channel.subscribe requests for channel c among the frames of r.out
subscribeFrames(r, c) ==
    {j \in DOMAIN r.out : /\ r.out[j].t = <<"channel", "subscribe">>
                          /\ "p" \in DOMAIN r.out[j] /\ r.out[j].p = c}

\* The subscription of channel c has its leave timer armed in r.
leaveArmed(r, c) ==
    \E k \in DOMAIN r.subscriptions :
        r.subscriptions[k].channel = c /\ r.subscriptions[k].leaveTimeout.armed

\* Bookkeeping every step shares: which connection carried a new request, the
\* time since a call was sent, the requests of the current Open window and the
\* time since leave() armed a timer.  `asked` are the channels subscribe() was
\* called for, `left` the channels a leave completed for, `progressedIds` the
\* calls a progress frame reached, `armed` the pairs <<channel, delay>> of the
\* leave timers armed.
Book(r, asked, left, progressedIds, armed) ==
    LET new == {String(n) : n \in (messageID + 1) .. r.messageID}
        sentId(i) == \E j \in DOMAIN r.out : "i" \in DOMAIN r.out[j] /\ r.out[j].i = i
        leaveSent(c) == \E j \in DOMAIN r.out : /\ r.out[j].t = <<"channel", "leave">>
                                                /\ "p" \in DOMAIN r.out[j] /\ r.out[j].p = c
        ackedNow(c) == /\ r.op = "onmessage" /\ r.received[1].s = Some(Success)
                       /\ \E i \in callbacks :
                             /\ r.received[1].i = Some(i) /\ callConn[i] = connId
                             /\ awaiting[i] # Undefined
                             /\ subscriptions[awaiting[i][1]].channel = c
        events(c) == {j \in DOMAIN r.emitted : /\ r.emitted[j].channelType = c.channel_type
                                                /\ r.emitted[j].pk = c.pk}
        last(c) == CHOOSE j \in events(c) : \A n \in events(c) : n <= j
    IN  /\ acked' = {c \in Channels : /\ r._readyState = "OPEN" /\ ~leaveSent(c)
                                      /\ (c \in acked \/ ackedNow(c))}
        /\ announced' = {c \in Channels : IF events(c) = {} THEN c \in announced
                                          ELSE r.emitted[last(c)].subscribed}
        /\ callConn' = [i \in CallKeys |->
                          IF i \in new
                          THEN IF r.ws = "OPEN" /\ sentId(i) THEN connId ELSE 0
                          ELSE callConn[i]]
        /\ sinceFrame' = [i \in CallKeys |->
                          IF i \in new \cup progressedIds \/ i \notin r.callbacks \cup callbacks
                          THEN 0 ELSE sinceFrame[i]]
        /\ sinceCall' = [i \in CallKeys |->
                          IF i \in new \/ i \notin r.callbacks \cup callbacks
                          THEN 0 ELSE sinceCall[i]]
        /\ opens' = IF r.op = "onopen" THEN opens + 1 ELSE opens
        /\ cancelled' = {c \in Channels : /\ leaveArmed(Cur, c) /\ ~leaveArmed(r, c)
                                          /\ r.op # "performLeave"}
        /\ subReqs' = [c \in Channels |->
                          IF r.ws # "OPEN" \/ c \in left THEN 0
                          ELSE subReqs[c] + Cardinality(subscribeFrames(r, c))]
        /\ openSubs' = [c \in Channels |->
                          IF r.ws # "OPEN" \/ c \in left THEN FALSE
                          ELSE openSubs[c] \/ c \in asked \/ subscribeFrames(r, c) # {}]
        /\ sinceLeave' = [c \in Channels |->
                          IF ~leaveArmed(r, c) \/ \E a \in armed : a[1] = c
                          THEN 0 ELSE sinceLeave[c]]
        /\ leaveDelayOf' = [c \in Channels |->
                          IF ~leaveArmed(r, c) THEN 0
                          ELSE IF \E a \in armed : a[1] = c
                          THEN (CHOOSE a \in armed : a[1] = c)[2]
                          ELSE leaveDelayOf[c]]

\* The same, for the initial state.
Start(r) ==
    /\ ws = r.ws /\ attached = r.attached /\ _readyState = r._readyState
    /\ messageID = r.messageID /\ callbacks = r.callbacks
    /\ timeoutId = r.timeoutId /\ callTimeout = r.callTimeout
    /\ promise = r.promise /\ awaiting = r.awaiting
    /\ heartbeats = r.heartbeats /\ leaked = r.leaked
    /\ typeHandlers = r.typeHandlers
    /\ eventHandlers = r.eventHandlers /\ subscriptions = r.subscriptions
    /\ subscriptionIds = r.subscriptionIds /\ handles = r.handles
    /\ out = <<>> /\ invoked = <<>> /\ emitted = <<>>
    /\ notified = <<>> /\ thrown = NoError /\ unhandled = <<>>
    /\ returned = Undefined /\ progressed = <<>>
    /\ received = Undefined /\ args = <<>> /\ op = "new"

Init ==
    /\ \E manual \in BOOLEAN : Start(constructor(manual))
    /\ connId = IF ws = "none" THEN 0 ELSE 1
    /\ callConn = [i \in CallKeys |-> 0]
    /\ nSends = 0
    /\ sinceLeave = [c \in Channels |-> 0]
    /\ leaveDelayOf = [c \in Channels |-> 0]
    /\ sinceFrame = [i \in CallKeys |-> 0]
    /\ sinceCall = [i \in CallKeys |-> 0]
    /\ opens = 0
    /\ cancelled = {}
    /\ subReqs = [c \in Channels |-> 0]
    /\ openSubs = [c \in Channels |-> FALSE]
    /\ acked = {}
    /\ announced = {}

---------------------------------------------------------------------------
(* Actions: one per API call, transport event or timer *)

\* socket.connect(), on a Socket that holds no live connection
Connect ==
    /\ connId < MaxConnects
    /\ ws \in {"none", "CLOSED"} \/ ~attached
    /\ LET r == connect(Cur)
       IN  Apply(Op(r, "connect")) /\ Book(Op(r, "connect"), {}, {}, {}, {})
    /\ connId' = connId + 1
    /\ UNCHANGED nSends

\* The transport opens: readyState OPEN and the open event.
TransportOpen ==
    /\ ws = "CONNECTING" /\ attached
    /\ Within([messageID |-> messageID + Resubscribed,
               subscriptionIds |-> subscriptionIds + Resubscribed])
    /\ LET r == onopen([Cur EXCEPT !.ws = "OPEN"])
       IN  Apply(Op(r, "onopen")) /\ Book(Op(r, "onopen"), {}, {}, {}, {})
    /\ UNCHANGED <<connId, nSends>>

\* The far end starts the closing handshake: readyState CLOSING, no event.
TransportClosing ==
    /\ ws = "OPEN" /\ attached
    /\ LET r == [Cur EXCEPT !.ws = "CLOSING"]
       IN  Apply(Op(r, "closing")) /\ Book(Op(r, "closing"), {}, {}, {}, {})
    /\ UNCHANGED <<connId, nSends>>

\* The connection is closed: readyState CLOSED and, if still attached, the
\* close event.
TransportClose ==
    /\ ws \in {"CONNECTING", "OPEN", "CLOSING"}
    /\ LET c == [Cur EXCEPT !.ws = "CLOSED"]
           r == IF attached THEN onclose(c) ELSE c
       IN  Apply(Op(r, "onclose")) /\ Book(Op(r, "onclose"), {}, {}, {}, {})
    /\ UNCHANGED <<connId, nSends>>

\* The connection fails: readyState CLOSED, the error event and then the
\* close event, in one task.
TransportError ==
    /\ ws \in {"CONNECTING", "OPEN"} /\ attached
    /\ LET r == onclose(onerror([Cur EXCEPT !.ws = "CLOSED"]))
       IN  Apply(Op(r, "onerror")) /\ Book(Op(r, "onerror"), {}, {}, {}, {})
    /\ UNCHANGED <<connId, nSends>>

\* socket.close()
Close ==
    /\ LET r == close(Cur)
       IN  Apply(Op(r, "close")) /\ Book(Op(r, "close"), {}, {}, {}, {})
    /\ UNCHANGED <<connId, nSends>>

\* socket.call(t, p, config) by the application
Call ==
    /\ messageID < MaxCalls
    /\ \E p \in CallPayloads, config \in CallConfigs :
         LET r == call(Cur, <<"test", "request">>, p, config)
         IN  Apply(Op(r, "call")) /\ Book(Op(r, "call"), {}, {}, {}, {})
    /\ UNCHANGED <<connId, nSends>>

\* socket.send(t, p) by the application
Send ==
    /\ nSends < MaxSends
    /\ \E p \in CallPayloads :
         LET r == send(Cur, <<"test", "outgoing">>, p)
         IN  Apply(Op(r, "send")) /\ Book(Op(r, "send"), {}, {}, {}, {})
    /\ nSends' = nSends + 1
    /\ UNCHANGED connId

\* socket.respond(t, i, s, p) by the application
Respond ==
    /\ nSends < MaxSends
    /\ \E i \in {Undefined, Some("7")}, p \in CallPayloads :
         LET r == respond(Cur, <<"test", "answer">>, i, Success, p)
         IN  Apply(Op(r, "respond")) /\ Book(Op(r, "respond"), {}, {}, {}, {})
    /\ nSends' = nSends + 1
    /\ UNCHANGED connId

\* socket.channels.subscribe(channel_type, pk) by the application, which keeps
\* the handle
Subscribe ==
    /\ subscriptionIds < MaxConsumers /\ messageID < MaxCalls
    /\ \E c \in Channels :
         LET r0 == subscribe(Cur, c)
             r  == [r0 EXCEPT !.handles = @ \cup {[id |-> r0.returned[1].id,
                                                   k |-> r0.returned[1].k]}]
         IN  Apply(Op(r, "subscribe")) /\ Book(Op(r, "subscribe"), IF ws = "OPEN" THEN {c} ELSE {}, {}, {}, {})
    /\ UNCHANGED <<connId, nSends>>

\* handle.leave(delay) by the application
Leave ==
    \E h \in handles, delay \in Delays :
        LET r == leave(Cur, h.id, h.k, delay)
            c == subscriptions[h.k].channel
            asked == IF delay = Undefined THEN DEFAULT_OPTIONS.leaveDelay ELSE delay[1]
        IN  /\ Apply(Op(r, "leave"))
            /\ Book(Op(r, "leave"), {}, {}, {},
                    IF r.subscriptions[h.k].leaveTimeout = setTimeout(asked)
                    THEN {<<c, asked>>} ELSE {})
            /\ UNCHANGED <<connId, nSends>>

\* The leave timer of a subscription fires.
PerformLeave ==
    \E k \in DOMAIN subscriptions :
        /\ subscriptions[k].leaveTimeout.armed /\ subscriptions[k].leaveTimeout.left = 0
        /\ LET r == performLeave([Cur EXCEPT !.subscriptions[k].leaveTimeout = NoTimer], k)
           IN  Apply(Op(r, "performLeave")) /\ Book(Op(r, "performLeave"), {}, IF r.emitted # <<>> THEN {subscriptions[k].channel} ELSE {}, {}, {})
        /\ UNCHANGED <<connId, nSends>>

\* The timeout of a call fires.
RejectTimeout ==
    \E i \in CallKeys :
        /\ timeoutId[i].armed /\ timeoutId[i].left = 0
        /\ LET r == microtasks(Cur, rejectTimeout(Cur, i), 1 .. MaxCalls)
           IN  Apply(Op(r, "timeout")) /\ Book(Op(r, "timeout"), {}, {}, {}, {})
        /\ UNCHANGED <<connId, nSends>>

\* A message event: the frame msg arrives on the open connection.
Receive(msg) ==
    /\ ws = "OPEN" /\ attached
    /\ LET r == [microtasks(Cur, onmessage(Cur, msg), 1 .. MaxCalls) EXCEPT
                      !.op = "onmessage", !.received = Some(msg)]
           touched == IF msg.i # Undefined /\ msg.i[1] \in callbacks
                         /\ msg.s \in {Some(Queued), Some(Running)}
                      THEN {msg.i[1]} ELSE {}
       IN  Apply(r) /\ Book(r, {}, {}, touched, {})
    /\ UNCHANGED <<connId, nSends>>

\* The far end answers a request it received on this connection.
Answered(i) == promise[i] # "none" /\ callConn[i] = connId

\* A response frame to a request of the application.
ResponseFrame ==
    \E i \in CallKeys :
        /\ Answered(i) /\ awaiting[i] = Undefined
        /\ \E msg \in Responses(i, <<"test", "response">>) : Receive(msg)

\* The frames that answer a channel.subscribe request.
SubscribeResponseFrame ==
    \E i \in CallKeys :
        /\ Answered(i) /\ awaiting[i] # Undefined
        /\ \E msg \in SubscribedFrames(Some(i), subscriptions[awaiting[i][1]].channel)
                      \cup {[t |-> <<"channel", "subscribe">>, i |-> Some(i),
                             s |-> Some(Failed), p |-> Some([msg |-> "m"])]} :
              Receive(msg)

\* A frame the far end pushes on its own.
TypeFrame ==
    \E t \in {<<"test", "message">>, <<"channel", "x">>, EmptyTag, Undefined} :
        Receive([t |-> t, i |-> Undefined, s |-> Undefined, p |-> Undefined])

\* An s.batch frame.
BatchFrame ==
    \E t \in BatchTypes, payloads \in BatchPayloads, i \in {Undefined, Some("9")} :
        Receive([t |-> <<"s", "batch">>, i |-> i, s |-> Undefined,
                 p |-> Some([t |-> t, payloads |-> payloads])])

\* A channel.subscribed frame that answers no request of this connection.
SubscribedFrame ==
    \E c \in Channels, a \in Snapshots, i \in {Undefined, Some("9")} :
        Receive([t |-> <<"channel", "subscribed">>, i |-> i, s |-> Some(Success),
                 p |-> Some([channel_type |-> c.channel_type, pk |-> c.pk, app_state |-> a])])

\* socket.addHeartbeat(callback, ms, direction)
AddHeartbeat ==
    /\ Len(heartbeats) + Len(leaked) < MaxHeartbeats
    /\ \E cb \in Beats, direction \in Directions :
         LET r == addHeartbeat(Cur, cb, Quantum, direction)
         IN  Apply(Op(r, "addHeartbeat")) /\ Book(Op(r, "addHeartbeat"), {}, {}, {}, {})
    /\ UNCHANGED <<connId, nSends>>

\* socket.addHeartbeat(ping, ms, direction) by an application that registers
\* one heartbeat
AddOnlyHeartbeat ==
    /\ Len(heartbeats) + Len(leaked) = 0
    /\ \E direction \in Directions :
         LET r == addHeartbeat(Cur, "ping", Quantum, direction)
         IN  Apply(Op(r, "addHeartbeat")) /\ Book(Op(r, "addHeartbeat"), {}, {}, {}, {})
    /\ UNCHANGED <<connId, nSends>>

\* socket.removeHeartbeat(callback)
RemoveHeartbeat ==
    /\ \E cb \in Beats :
         LET r == removeHeartbeat(Cur, cb)
         IN  /\ Apply(OpOf(r, "removeHeartbeat", <<cb>>))
             /\ Book(Op(r, "removeHeartbeat"), {}, {}, {}, {})
    /\ UNCHANGED <<connId, nSends>>

\* The interval of a heartbeat entry fires: callback(this), and it repeats.
HeartbeatFire ==
    \E k \in DOMAIN heartbeats :
        /\ heartbeats[k].intervalID.armed /\ heartbeats[k].intervalID.left = 0
        /\ LET r == [Cur EXCEPT !.heartbeats[k].intervalID = setInterval(heartbeats[k].ms),
                                !.invoked = <<<<"heartbeat", heartbeats[k].callback>>>>]
           IN  Apply(Op(r, "heartbeat")) /\ Book(Op(r, "heartbeat"), {}, {}, {}, {})
        /\ UNCHANGED <<connId, nSends>>

\* An interval that outlived its heartbeat entry fires: callback(this).
LeakedHeartbeatFire ==
    \E k \in DOMAIN leaked :
        /\ leaked[k].intervalID.left = 0
        /\ LET r == [Cur EXCEPT !.leaked[k].intervalID = setInterval(leaked[k].ms),
                                !.invoked = <<<<"heartbeat", leaked[k].callback>>>>]
           IN  Apply(Op(r, "leaked")) /\ Book(Op(r, "leaked"), {}, {}, {}, {})
        /\ UNCHANGED <<connId, nSends>>

\* socket.addTypeHandler(name, handler)
AddTypeHandler ==
    /\ \E name \in Registered, h \in Handlers :
         LET r == addTypeHandler(Cur, name, h)
         IN  /\ Apply(OpOf(r, "addTypeHandler", <<name, h>>))
             /\ Book(Op(r, "addTypeHandler"), {}, {}, {}, {})
    /\ UNCHANGED <<connId, nSends>>

\* socket.removeTypeHandler(name, handler)
RemoveTypeHandler ==
    /\ \E name \in Registered, h \in Handlers :
         LET r == removeTypeHandler(Cur, name, h)
         IN  /\ Apply(OpOf(r, "removeTypeHandler", <<name, h>>))
             /\ Book(Op(r, "removeTypeHandler"), {}, {}, {}, {})
    /\ UNCHANGED <<connId, nSends>>

\* socket.on('readyState', handler)
On ==
    /\ Len(eventHandlers) <= MaxListeners
    /\ \E l \in Listeners :
         LET r == on(Cur, l)
         IN  Apply(Op(r, "on")) /\ Book(Op(r, "on"), {}, {}, {}, {})
    /\ UNCHANGED <<connId, nSends>>

\* socket.off('readyState', handler)
Off ==
    /\ \E l \in Listeners :
         LET r == off(Cur, l)
         IN  Apply(Op(r, "off")) /\ Book(Op(r, "off"), {}, {}, {}, {})
    /\ UNCHANGED <<connId, nSends>>

\* A timer after Quantum more milliseconds.
elapse(timer) ==
    IF timer.armed /\ timer.left > Quantum THEN [timer EXCEPT !.left = @ - Quantum]
    ELSE IF timer.armed THEN [timer EXCEPT !.left = 0]
    ELSE timer

later(ms) == IF ms + Quantum > Horizon THEN Horizon ELSE ms + Quantum

\* Quantum milliseconds pass.
Tick ==
    /\ LET subs == subscriptions
           hb == heartbeats
           r == [Cur EXCEPT
                   !.timeoutId = [i \in CallKeys |-> elapse(timeoutId[i])],
                   !.subscriptions = [k \in DOMAIN subs |->
                        [subs[k] EXCEPT !.leaveTimeout = elapse(@)]],
                   !.heartbeats = [k \in DOMAIN hb |->
                        [hb[k] EXCEPT !.intervalID = elapse(@)]],
                   !.leaked = [k \in DOMAIN leaked |->
                        [leaked[k] EXCEPT !.intervalID = elapse(@)]]]
       IN  Apply(Op(r, "tick"))
    /\ sinceLeave' = [c \in Channels |->
                        IF \E k \in DOMAIN subscriptions :
                              subscriptions[k].channel = c /\ subscriptions[k].leaveTimeout.armed
                        THEN later(sinceLeave[c]) ELSE sinceLeave[c]]
    /\ sinceFrame' = [i \in CallKeys |->
                        IF i \in callbacks THEN later(sinceFrame[i]) ELSE 0]
    /\ sinceCall' = [i \in CallKeys |->
                        IF i \in callbacks THEN later(sinceCall[i]) ELSE 0]
    /\ cancelled' = {}
    /\ UNCHANGED <<connId, callConn, nSends, leaveDelayOf, opens, subReqs, openSubs, acked,
                 announced>>

---------------------------------------------------------------------------
(* Specifications *)

\* The whole program.
Next ==
    \/ Connect \/ TransportOpen \/ TransportClosing \/ TransportClose
    \/ TransportError \/ Close
    \/ Call \/ Send \/ Respond \/ RejectTimeout
    \/ Subscribe \/ Leave \/ PerformLeave
    \/ ResponseFrame \/ SubscribeResponseFrame \/ TypeFrame \/ BatchFrame
    \/ SubscribedFrame
    \/ AddHeartbeat \/ AddOnlyHeartbeat \/ RemoveHeartbeat
    \/ HeartbeatFire \/ LeakedHeartbeatFire
    \/ AddTypeHandler \/ RemoveTypeHandler \/ On \/ Off
    \/ Tick

Spec == Init /\ [][Next]_vars

\* The connection and the channel subscriptions.
NextChannels ==
    \/ Connect \/ TransportOpen \/ TransportClosing \/ TransportClose
    \/ TransportError \/ Close
    \/ Subscribe \/ Leave \/ PerformLeave
    \/ SubscribeResponseFrame \/ RejectTimeout
    \/ Tick

SpecChannels == Init /\ [][NextChannels]_vars

\* The connection and the request/response correlator.
NextCalls ==
    \/ Connect \/ TransportOpen \/ TransportClosing \/ TransportClose
    \/ TransportError \/ Close
    \/ Call \/ RejectTimeout
    \/ ResponseFrame
    \/ Tick

SpecCalls == Init /\ [][NextCalls]_vars

\* Calls on a connection that opens and closes, where time goes on and a
\* timer that is due fires.
NextTimeouts ==
    \/ Connect \/ TransportOpen \/ TransportClose
    \/ Call \/ RejectTimeout
    \/ ResponseFrame
    \/ Tick

SpecTimeouts == Init /\ [][NextTimeouts]_vars /\ WF_vars(Tick) /\ WF_vars(RejectTimeout)

\* The connection and the outgoing frames.
NextOutgoing ==
    \/ Connect \/ TransportOpen \/ TransportClosing \/ TransportClose
    \/ TransportError \/ Close
    \/ Call \/ Send \/ Respond
    \/ Tick

SpecOutgoing == Init /\ [][NextOutgoing]_vars

\* The connection, traffic in both directions and the heartbeats.
NextHeartbeats ==
    \/ Connect \/ TransportOpen \/ TransportClosing \/ TransportClose
    \/ Close
    \/ Send \/ Respond \/ TypeFrame
    \/ AddHeartbeat \/ RemoveHeartbeat \/ HeartbeatFire \/ LeakedHeartbeatFire
    \/ Tick

SpecHeartbeats == Init /\ [][NextHeartbeats]_vars

\* Calls and subscribe requests that fail or time out, with heartbeats.
NextFailures ==
    \/ Connect \/ TransportOpen
    \/ Call \/ Subscribe
    \/ ResponseFrame \/ SubscribeResponseFrame \/ RejectTimeout
    \/ AddOnlyHeartbeat
    \/ Tick

SpecFailures == Init /\ [][NextFailures]_vars

\* The connection and the listeners of its ready state.
NextReadyState ==
    \/ Connect \/ TransportOpen \/ TransportClosing \/ TransportClose
    \/ TransportError \/ Close
    \/ On \/ Off
    \/ TypeFrame

SpecReadyState == Init /\ [][NextReadyState]_vars

\* Type dispatch and batch unwrapping on an open connection.
NextDispatch ==
    \/ Connect \/ TransportOpen \/ TransportClose
    \/ AddTypeHandler \/ RemoveTypeHandler
    \/ TypeFrame \/ BatchFrame \/ SubscribedFrame

SpecDispatch == Init /\ [][NextDispatch]_vars

---------------------------------------------------------------------------
(* Properties of the channel subscriptions *)

\* The call with correlation id i was abandoned: it is out of the registry
\* and its promise rejected with the TimeoutError.
TimedOut(i) == i \notin callbacks /\ promise[i] = "Request timed out"

\* The step was the arrival of a frame that carries correlation id i.
FrameFor(i) == received # Undefined /\ received[1].i = Some(i)

\* The step was the arrival of a progress frame for the call i.
ProgressFor(i) == FrameFor(i) /\ received[1].s \in {Some(Queued), Some(Running)}

\* The channel.leave requests for channel c among the frames of the step.
leaveFrames(c) ==
    {j \in DOMAIN out : /\ out[j].t = <<"channel", "leave">>
                         /\ "p" \in DOMAIN out[j] /\ out[j].p = c}

\* C1: while the connection is Open, every channel that subscribe() was called
\* for has had exactly one channel.subscribe request sent for it, however many
\* times subscribe() was called: further consumers send no request of their own.
C1_OneSubscribeRequest ==
    \A c \in Channels :
        /\ subReqs[c] <= 1
        /\ openSubs[c] => subReqs[c] = 1

\* A second consumer has just subscribed, on the Open connection, to a channel
\* whose request is still unanswered.
C1_Witness ==
    /\ op = "subscribe" /\ ws = "OPEN"
    /\ \E k \in DOMAIN subscriptions :
          /\ returned[1].k = k
          /\ Cardinality(subscriptions[k].consumers) >= 2
          /\ subscriptions[k].status = Subscribing
          /\ subReqs[subscriptions[k].channel] = 1

\* C2: a leave() that leaves other consumers on a Subscribed channel sends and
\* emits nothing and arms no timer; the leave() of the last consumer arms the
\* timer with the delay asked for and sends nothing yet; a channel.leave frame
\* is sent only by that timer firing, no sooner than the delay after the last
\* leave(), one frame per firing; and an armed timer is only ever disarmed by
\* firing or by a new consumer.
C2_LeaveOfLastConsumer ==
    [][\A k \in DOMAIN subscriptions :
          LET sub  == subscriptions[k]
              sub2 == subscriptions'[k]
              c    == sub.channel
          IN  /\ (op' = "leave" /\ sub.status = Subscribed /\ sub2.consumers # sub.consumers)
                    => /\ out' = <<>> /\ emitted' = <<>>
                       /\ sub2.status = Subscribed
                       /\ IF sub2.consumers # {} THEN sub2.leaveTimeout = NoTimer
                          ELSE sub2.leaveTimeout = setTimeout(leaveDelayOf'[c])
              /\ leaveFrames(c)' # {}
                    => /\ op' = "performLeave" /\ Len(out') = 1
                       /\ sub.leaveTimeout.armed /\ ~sub2.leaveTimeout.armed
                       /\ sinceLeave[c] >= leaveDelayOf[c]
              /\ (op' = "performLeave" /\ ws = "OPEN"
                     /\ sub.leaveTimeout.armed /\ ~sub2.leaveTimeout.armed)
                    => Cardinality(leaveFrames(c)') = 1
              /\ (sub.leaveTimeout.armed /\ ~sub2.leaveTimeout.armed)
                    => op' = "performLeave" \/ sub2.consumers # {}
      ]_vars

\* The timer of a channel two consumers shared has fired after the configured
\* delay and sent its one channel.leave frame.
C2_Witness ==
    /\ op = "performLeave" /\ Len(out) = 1 /\ Len(subscriptions) = 1
    /\ leaveFrames(subscriptions[1].channel) = {1}
    /\ subscriptionIds >= 2
    /\ subscriptions[1].consumers = {} /\ subscriptions[1].status = None

\* C3: subscribe() on a Subscribed channel whose leave timer is armed clears
\* the timer, keeps the channel Subscribed and sends neither a channel.leave
\* nor a channel.subscribe frame; and no channel.leave frame is ever sent for
\* a channel that has a consumer.
C3_SubscribeCancelsLeave ==
    [][\A k \in DOMAIN subscriptions :
          LET sub  == subscriptions[k]
              sub2 == subscriptions'[k]
              c    == sub.channel
          IN  /\ (op' = "subscribe" /\ returned'[1].k = k
                     /\ sub.leaveTimeout.armed /\ sub.status = Subscribed)
                    => /\ sub2.leaveTimeout = NoTimer
                       /\ sub2.status = Subscribed
                       /\ sub2.consumers = {returned'[1].id}
                       /\ returned'[1].promise = "resolved"
                       /\ out' = <<>> /\ emitted' = <<>>
                       /\ messageID' = messageID
              /\ leaveFrames(c)' # {} => sub.consumers = {} /\ sub2.consumers = {}
      ]_vars

\* A consumer has subscribed to a Subscribed channel in time to cancel its
\* pending leave.
C3_Witness ==
    /\ op = "subscribe" /\ out = <<>>
    /\ \E k \in DOMAIN subscriptions :
          /\ subscriptions[k].channel \in cancelled
          /\ subscriptions[k].status = Subscribed
          /\ subscriptions[k].consumers = {subscriptionIds}

\* The channel.subscribe requests for channel c among the frames of the step.
subscribeRequests(c) == subscribeFrames([out |-> out], c)

\* The channels that have a consumer.
consumed == {subscriptions[k].channel : k \in {j \in DOMAIN subscriptions :
                                                   subscriptions[j].consumers # {}}}

\* C6: subscribe() while the connection is not Open records the consumer,
\* returns a promise that is already resolved, and sends, allocates and
\* registers nothing; and the step in which the ready state becomes Open sends
\* one channel.subscribe request for every channel that has a consumer and
\* none for any other.
C6_SubscribeDeferredUntilOpen ==
    [][/\ (op' = "subscribe" /\ ws # "OPEN")
            => /\ returned'[1].promise = "resolved"
               /\ returned'[1].id \in subscriptions'[returned'[1].k].consumers
               /\ returned'[1].id \notin UNION {subscriptions[k].consumers :
                                                    k \in DOMAIN subscriptions}
               /\ out' = <<>> /\ thrown' = NoError /\ unhandled' = <<>>
               /\ messageID' = messageID /\ callbacks' = callbacks
       /\ (_readyState # "OPEN" /\ _readyState' = "OPEN")
            => \A c \in Channels :
                  Cardinality(subscribeRequests(c)') = IF c \in consumed THEN 1 ELSE 0
      ]_vars

\* The connection has opened for the first time and the request for a
\* channel subscribed to before that went out with it.
C6_Witness ==
    /\ op = "onopen" /\ opens = 1 /\ _readyState = "OPEN"
    /\ \E c \in Channels : subscribeRequests(c) # {}

\* C7: when the connection opens again after it had been Open, the handler, not
\* the application, sends one channel.subscribe request for each channel that
\* still has a consumer, which becomes Subscribing, and leaves the channels
\* without a consumer alone; the Success frame that answers a
\* channel.subscribe request makes its channel Subscribed and tells the
\* listeners so.
C7_ResubscribedOnReopen ==
    [][\A k \in DOMAIN subscriptions :
          LET sub  == subscriptions[k]
              sub2 == subscriptions'[k]
              c    == sub.channel
          IN  /\ (op' = "onopen" /\ opens >= 1 /\ sub.consumers # {})
                    => /\ Cardinality(subscribeRequests(c)') = 1
                       /\ sub2.status = Subscribing
                       /\ handles' = handles
                       /\ \E i \in callbacks' \ callbacks : awaiting'[i] = Some(k)
              /\ (op' = "onopen" /\ opens >= 1 /\ sub.consumers = {})
                    => subscribeRequests(c)' = {} /\ sub2.status = None
              /\ (op' = "onmessage" /\ received'[1].s = Some(Success)
                     /\ \E i \in callbacks : awaiting[i] = Some(k) /\ FrameFor(i)')
                    => /\ sub2.status = Subscribed
                       /\ \E j \in DOMAIN emitted' :
                             emitted'[j] = [channelType |-> c.channel_type, pk |-> c.pk,
                                            subscribed |-> TRUE]
      ]_vars

\* The one subscribe() of the application was on the first connection; the
\* second connection has opened, and the request sent with it is acknowledged.
C7_Witness ==
    /\ op = "onmessage" /\ opens = 2 /\ Cardinality(handles) = 1 /\ subscriptionIds = 2
    /\ \E k \in DOMAIN subscriptions :
          /\ subscriptions[k].status = Subscribed
          /\ emitted # <<>> /\ emitted[1].subscribed
          /\ emitted[1].pk = subscriptions[k].channel.pk

---------------------------------------------------------------------------
(* Properties of the request/response correlator *)

\* C4 as stated: every call in the registry, unless a frame arrives for it,
\* is eventually removed from the registry and rejected with the TimeoutError.
C4_EveryCallAbandoned ==
    \A i \in CallKeys : (i \in callbacks) ~> (TimedOut(i) \/ FrameFor(i))

\* C4: every call in the registry whose timeout is not zero has its timeout
\* armed and, unless a frame arrives for it, is eventually removed from the
\* registry and rejected with the TimeoutError.
C4_CallWithTimeoutAbandoned ==
    /\ [](\A i \in callbacks : callTimeout[i] # 0 => timeoutId[i].armed)
    /\ \A i \in CallKeys :
          (i \in callbacks /\ callTimeout[i] # 0) ~> (TimedOut(i) \/ FrameFor(i))

\* The timeout of a call fired a full period after the request: the call is
\* abandoned.
C4_Witness ==
    /\ op = "timeout"
    /\ \E i \in CallKeys : TimedOut(i) /\ callTimeout[i] = DEFAULT_CONFIG.timeout

\* C5: a progress frame for a call in the registry leaves the call pending,
\* restarts its timeout at the full period and forwards its payload, if it has
\* one, to the progress observers; the timeout abandons a call only a full
\* period after the request or its last progress frame; so a Success frame
\* for a call still in the registry resolves it, however long ago the request
\* was.
C5_ProgressRestartsTimeout ==
    [][\A i \in callbacks :
          /\ (op' = "onmessage" /\ ProgressFor(i)')
                => /\ i \in callbacks' /\ promise'[i] = promise[i]
                   /\ timeoutId'[i] = IF callTimeout[i] = 0 THEN NoTimer
                                      ELSE setTimeout(callTimeout[i])
                   /\ progressed' = IF received'[1].p # Undefined
                                    THEN << <<i, received'[1].p[1]>> >> ELSE <<>>
          /\ (op' = "timeout" /\ i \notin callbacks')
                => sinceFrame[i] >= callTimeout[i] /\ callTimeout[i] # 0
          /\ (op' = "onmessage" /\ FrameFor(i)' /\ received'[1].s = Some(Success)
                 /\ promise[i] = "pending")
                => i \notin callbacks' /\ promise'[i] = "resolved"
      ]_vars

\* A Success frame resolved a call whose request is a full timeout period old
\* and whose last progress frame is not.
C5_Witness ==
    /\ op = "onmessage" /\ received[1].s = Some(Success)
    /\ \E i \in CallKeys :
          /\ FrameFor(i) /\ promise[i] = "resolved"
          /\ callTimeout[i] = DEFAULT_CONFIG.timeout
          /\ sinceCall[i] >= callTimeout[i] /\ sinceFrame[i] < callTimeout[i]

---------------------------------------------------------------------------
(* Properties of the type dispatch *)

\* The step was the arrival of an s.batch frame.
BatchArrived == op = "onmessage" /\ isBatchMessage(received[1])

\* The handlers registered for namespace n.
registered(n) == IF typeHandlers[n] = Undefined THEN <<>> ELSE typeHandlers[n][1]

\* The application handler h is registered for namespace n.
isRegistered(h, n) == \E k \in DOMAIN registered(n) : registered(n)[k] = h

\* The invocations of handler h in the step, in order.
invocations(h) ==
    LET of(e) == e[1] = h
    IN  SelectSeq(invoked, of)

\* The invocations of handler h in the step with a frame that is not an
\* s.batch frame, in order.
unwrapped(h) ==
    LET plain(e) == e[1] = h /\ ~isBatchMessage(e[2])
    IN  SelectSeq(invoked, plain)

\* The frames the batch frame of the step unwraps to, as invocations of h.
replayed(h) ==
    LET batch == received[1].p[1]
    IN  [k \in DOMAIN batch.payloads |->
            <<h, [t |-> batch.t, i |-> received[1].i, p |-> batch.payloads[k]]>>]

---------------------------------------------------------------------------
(* Properties of the outgoing frames *)

\* C9 as stated: call() while the connection is not Open throws the not-open
\* error and has no effect: no correlation id is allocated, nothing is handed
\* to the transport, no call is registered and no timeout armed.
C9_CallNotOpenFails ==
    [][(op' = "call" /\ ws # "OPEN")
          => /\ thrown' = "NotOpen"
             /\ messageID' = messageID
             /\ out' = <<>>
             /\ callbacks' = callbacks
             /\ timeoutId' = timeoutId
      ]_vars

\* C10 as stated: send() and respond() while the connection is not Open throw
\* the not-open error and change nothing: no frame is handed to the transport
\* and no heartbeat interval is restarted; and send() never registers a call.
C10_SendNotOpenFails ==
    [][/\ (op' \in {"send", "respond"} /\ ws # "OPEN")
            => /\ thrown' = "NotOpen"
               /\ out' = <<>>
               /\ heartbeats' = heartbeats
               /\ progVars' = progVars
       /\ op' = "send" => callbacks' = callbacks /\ messageID' = messageID
      ]_vars

---------------------------------------------------------------------------
(* Properties of the connection *)

\* The application listener l is registered for the readyState event.
listening(l) == \E k \in DOMAIN eventHandlers : eventHandlers[k] = l

\* The ready states the step notified listener l of, in order.
notifications(l) ==
    LET to(e) == e[1] = l
        mine == SelectSeq(notified, to)
    IN  [k \in DOMAIN mine |-> mine[k][2]]

\* C11 as stated: every step that changes the state of the connection
\* notifies every registered listener exactly once, with the new state, and
\* a step that does not change it notifies nobody; so no change goes
\* unreported and no two consecutive notifications carry the same value.
C11_EveryChangeNotifiedOnce ==
    [][\A l \in Listeners :
          (listening(l) /\ listening(l)')
              => notifications(l)' = IF ws' # ws THEN <<ws'>> ELSE <<>>
      ]_vars

\* C12 as stated: close() on a connection that is already closed notifies
\* nobody and changes no subscription, pending call or heartbeat timer.
C12_CloseWhenClosedIsNoOp ==
    [][(op' = "close" /\ ws = "CLOSED")
          => /\ notified' = <<>>
             /\ _readyState' = _readyState
             /\ subscriptions' = subscriptions
             /\ callbacks' = callbacks /\ timeoutId' = timeoutId /\ promise' = promise
             /\ heartbeats' = heartbeats
      ]_vars

---------------------------------------------------------------------------
(* Properties of the heartbeats *)

\* C13 as stated: while the connection is not Open, and the program has seen
\* that it is not, no heartbeat entry has its timer armed.
C13_NoTimerUnlessOpen ==
    (ws # "OPEN" /\ _readyState # "OPEN")
        => \A k \in DOMAIN heartbeats : ~heartbeats[k].intervalID.armed

\* The step is traffic in direction d: a frame arrived, or send() or respond()
\* was called.
traffic(d) ==
    \/ d = "incoming" /\ op' = "onmessage"
    \/ d = "outgoing" /\ op' \in {"send", "respond"}

C15_RemovesFirstMatchOnly ==
    [][op' = "removeHeartbeat" =>
          /\ LET cb == args'[1]
             IN  heartbeats' =
                    IF \A k \in DOMAIN heartbeats : heartbeats[k].callback # cb
                    THEN heartbeats
                    ELSE LET first == find(heartbeats, cb)
                         IN  SubSeq(heartbeats, 1, first - 1)
                                 \o SubSeq(heartbeats, first + 1, Len(heartbeats))
          /\ leaked' = <<>>
      ]_vars

---------------------------------------------------------------------------
(* Properties of the responses *)

\* C16 as stated: a frame that carries the correlation id of a pending call
\* and a state other than Queued or Running removes the call from the
\* registry and settles its promise: Success resolves, Failed rejects with a
\* validation error when the payload has an errors field and with a generic
\* error otherwise, and any other or missing state rejects as a failure.
C16_TerminalFrameSettles ==
    [][\A i \in CallKeys :
          (/\ op' = "onmessage" /\ i \in callbacks /\ promise[i] = "pending"
           /\ received'[1].i = Some(i)
           /\ received'[1].s \notin {Some(Queued), Some(Running)})
          => /\ i \notin callbacks'
             /\ promise'[i] =
                  IF received'[1].s = Some(Success) THEN "resolved"
                  ELSE IF received'[1].s = Some(Failed)
                  THEN IF received'[1].p # Undefined /\ "errors" \in DOMAIN received'[1].p[1]
                       THEN "ValidationError" ELSE "Error"
                  ELSE "Unknown socket state"
      ]_vars

---------------------------------------------------------------------------
(* Properties of the type handlers *)

\* The application's handlers registered for namespace n, in order.
appHandlers(n) ==
    LET app(h) == h # "system"
    IN  SelectSeq(registered(n), app)

\* The handlers the step invoked with the frame it received itself, in order.
invokedWithFrame ==
    LET itself(e) == e[2] = received[1]
        those == SelectSeq(invoked, itself)
    IN  [k \in DOMAIN those |-> those[k][1]]

\* handlers.filter((h) => h !== handler), by position.
filtered(handlers, handler) ==
    LET other(h) == h # handler
    IN  SelectSeq(handlers, other)

\* C17: no handler is registered twice for a namespace; addTypeHandler of a
\* registered handler and removeTypeHandler of an unregistered one leave the
\* handlers of every namespace as they were, and otherwise append and remove
\* that handler only; a frame dispatched by type invokes the handlers of its
\* namespace once each with that frame, in registration order.
C17_RegisteredOncePerNamespace ==
    [][/\ \A n \in Namespaces : \A j, k \in DOMAIN registered(n)' :
            registered(n)'[j] = registered(n)'[k] => j = k
       /\ op' = "addTypeHandler" =>
            \A n \in Namespaces :
                registered(n)' =
                    IF n = args'[1] /\ ~isRegistered(args'[2], n)
                    THEN Append(registered(n), args'[2]) ELSE registered(n)
       /\ op' = "removeTypeHandler" =>
            \A n \in Namespaces :
                registered(n)' =
                    IF n = args'[1] THEN filtered(registered(n), args'[2])
                    ELSE registered(n)
       /\ (/\ op' = "onmessage" /\ ~isSubscribedMessage(received'[1])
           /\ received'[1].t \notin {Undefined, EmptyTag})
            => invokedWithFrame' = appHandlers(split0(received'[1].t))
      ]_vars

\* addTypeHandler('test', h1) was called with h1 registered before h2: the
\* registration is as it was.
C17_Witness ==
    /\ op = "addTypeHandler" /\ args = <<"test", "h1">>
    /\ registered("test") = <<"h1", "h2">>

RECURSIVE dispatched(_)
\* The invocations the snapshot entries cause, dispatched by type in order.
dispatched(entries) ==
    IF entries = <<>> THEN <<>>
    ELSE LET e == Head(entries)
             hs == IF e.t \in {Undefined, EmptyTag} THEN <<>> ELSE appHandlers(split0(e.t))
         IN  [k \in DOMAIN hs |-> <<hs[k], e>>] \o dispatched(Tail(entries))

\* C19: a successful channel.subscribed frame invokes the hook once, with the
\* identity of the channel, before anything else, then the type handlers of
\* every app_state entry in the order of the entries, and nothing with the
\* subscribed frame itself; a missing or empty app_state invokes the hook only.
C19_HookThenSnapshotInOrder ==
    (op = "onmessage" /\ isSubscribedMessage(received[1]))
        => LET p == received[1].p[1]
               entries == IF p.app_state = Undefined THEN <<>> ELSE p.app_state[1]
           IN  invoked = << <<"beforeAppStateHandler",
                              [channelType |-> p.channel_type, pk |-> p.pk]>> >>
                         \o dispatched(entries)

\* A snapshot of five entries arrived with h2 then h1 registered for 'test':
\* the hook came first and both handlers got both 'test' entries.
C19_Witness ==
    /\ op = "onmessage" /\ isSubscribedMessage(received[1])
    /\ received[1].p[1].app_state # Undefined
    /\ Len(received[1].p[1].app_state[1]) = 5
    /\ registered("test") = <<"h2", "h1">>
    /\ Len(invoked) >= 5 /\ invoked[1][1] = "beforeAppStateHandler"
    /\ invoked[2][1] = "h2" /\ invoked[3][1] = "h1"

---------------------------------------------------------------------------
(* Properties of the subscriptions across connection states *)

\* C20: while the ready state last notified is not Open, every subscription
\* has status None and getSubscribedChannels yields nothing: every step that
\* ends with another notified ready state than Open ends with the statuses
\* reset.
C20_NoneUnlessOpen ==
    _readyState # "OPEN" =>
        /\ \A k \in DOMAIN subscriptions : subscriptions[k].status = None
        /\ getSubscribedChannels(Cur) = <<>>

\* The connection left Open with a subscription that has a consumer and that
\* the far end had confirmed: its status is None.
C20_Witness ==
    /\ op \in {"close", "onclose", "onerror"} /\ _readyState \in {"CLOSING", "CLOSED"}
    /\ \E k \in DOMAIN subscriptions :
          /\ subscriptions[k].consumers # {} /\ subscriptions[k].status = None
          /\ \E i \in CallKeys : awaiting[i] = Some(k) /\ promise[i] = "resolved"

---------------------------------------------------------------------------
(* Properties of the leave timer across connection states *)

\* The step emitted a subscribed-changed event for channel c with this value.
emittedFor(c, subscribed) ==
    \E j \in DOMAIN emitted :
        emitted[j] = [channelType |-> c.channel_type, pk |-> c.pk, subscribed |-> subscribed]

\* The status of the subscription of channel c, None if there is none.
statusOf(c) ==
    IF \E k \in DOMAIN subscriptions : subscriptions[k].channel = c
    THEN subscriptions[CHOOSE k \in DOMAIN subscriptions : subscriptions[k].channel = c].status
    ELSE None

\* C21 as stated: a step hands a channel.leave frame to the transport, or
\* emits subscribed:false, for a channel only if, when the step began, the
\* connection was Open as far as the program had been notified and the status
\* of the subscription was Subscribed.
C21_LeaveOnlyWhenSubscribedOpen ==
    [][\A c \in Channels :
          (leaveFrames(c)' # {} \/ emittedFor(c, FALSE)')
              => _readyState = "OPEN" /\ statusOf(c) = Subscribed
      ]_vars

---------------------------------------------------------------------------
(* Properties of the order of batch unwrapping *)

RECURSIVE unbatched(_, _)
\* The invocations the frames cause when each is dispatched by type to the
\* handlers hs, one frame after another.
unbatched(frames, hs) ==
    IF frames = <<>> THEN <<>>
    ELSE [k \in DOMAIN hs |-> <<hs[k], Head(frames)>>] \o unbatched(Tail(frames), hs)

\* C22 as stated: the synthetic frames of an s.batch frame are dispatched in
\* payload order, each to every handler of the namespace of the sub-type
\* before the next, as N frames that arrived unbatched would be.
C22_BatchAsUnbatched ==
    BatchArrived =>
        LET batch == received[1].p[1]
            frames == [k \in DOMAIN batch.payloads |->
                          [t |-> batch.t, i |-> received[1].i, p |-> batch.payloads[k]]]
            plain(e) == e[1] \in Handlers /\ ~isBatchMessage(e[2])
        IN  SelectSeq(invoked, plain) = unbatched(frames, appHandlers(split0(batch.t)))

---------------------------------------------------------------------------
(* Properties of the subscription status *)

\* C23: a subscription has status Subscribed only if a channel.subscribe
\* request for its channel was acknowledged with Success on the current
\* connection, and since then no channel.leave was sent for the channel and
\* the program was notified of no ready state other than Open.
C23_SubscribedOnlyIfAcknowledged ==
    \A k \in DOMAIN subscriptions :
        subscriptions[k].status = Subscribed => subscriptions[k].channel \in acked

\* The far end acknowledged a request on the second connection, and the
\* subscription is Subscribed again.
C23_Witness ==
    /\ op = "onmessage" /\ connId = 2 /\ emitted # <<>>
    /\ \E k \in DOMAIN subscriptions :
          subscriptions[k].status = Subscribed /\ subscriptions[k].channel \in acked

---------------------------------------------------------------------------
(* Properties of the correlation ids *)

\* The correlation ids issued so far.
issued == {String(n) : n \in 1 .. messageID}

\* C24: the counter of correlation ids never goes back, a call is registered
\* under an id that was issued in the very step, so under an id no earlier call
\* has, pending or not, and every pending call has an id issued before; this
\* holds across close and reconnect.
C24_IdsNeverReused ==
    [][/\ messageID' >= messageID
       /\ callbacks' \subseteq issued'
       /\ \A i \in CallKeys :
            (promise[i] = "none" /\ promise'[i] # "none") => i \in issued' \ issued
       /\ \A i \in CallKeys :
            (i \in callbacks /\ i \in callbacks') =>
                /\ promise'[i] = promise[i] /\ callTimeout'[i] = callTimeout[i]
                /\ callConn'[i] = callConn[i]
      ]_vars

\* A call made on the second connection, while the call made on the first is
\* still pending, got the next id.
C24_Witness ==
    /\ op = "call" /\ connId = 2 /\ callbacks = {"1", "2"}
    /\ callConn["1"] = 1 /\ messageID = 2

---------------------------------------------------------------------------
(* Properties of a call that fails *)

\* The step ended the pending call i otherwise than by resolving it: its
\* timeout fired, or a frame with its id and a state that is not Success,
\* Queued or Running arrived.
failed(i) ==
    /\ op' \in {"timeout", "onmessage"}
    /\ i \in callbacks /\ i \notin callbacks' /\ promise'[i] # "resolved"

\* The step left alone the connection, the other pending calls with their
\* timeouts and the subscriptions.
othersUntouched(i) ==
    /\ ws' = ws /\ _readyState' = _readyState /\ attached' = attached
    /\ callbacks' = callbacks \ {i}
    /\ \A j \in CallKeys \ {i} :
          /\ timeoutId'[j] = timeoutId[j] /\ promise'[j] = promise[j]
          /\ callTimeout'[j] = callTimeout[j]
    /\ subscriptions' = subscriptions

\* C25 as stated: a call that fails or times out changes its own registry
\* entry and timer only; the connection, the other pending calls, the
\* subscriptions and every heartbeat timer are as they were.
C25_FailureTouchesNothingElse ==
    [][\A i \in CallKeys : failed(i) => othersUntouched(i) /\ heartbeats' = heartbeats]_vars

\* C25, amended: the same, but for the heartbeat timers when the failure comes
\* with a frame: the frame is incoming traffic and restarts the timers of the
\* entries whose direction is unset or incoming; a timeout restarts none.
C25_FailureTouchesOwnEntryOnly ==
    [][\A i \in CallKeys : failed(i) =>
          /\ othersUntouched(i)
          /\ DOMAIN heartbeats' = DOMAIN heartbeats
          /\ \A k \in DOMAIN heartbeats :
                heartbeats'[k] =
                    IF op' = "onmessage" /\ heartbeats[k].direction \in {Undefined, Some("incoming")}
                    THEN [heartbeats[k] EXCEPT !.intervalID = setInterval(heartbeats[k].ms)]
                    ELSE heartbeats[k]
      ]_vars

\* A call timed out while another call was pending, a subscription was
\* waiting for its acknowledgement and a heartbeat timer had run down.
C25_Witness ==
    /\ op = "timeout" /\ callbacks # {}
    /\ \E i \in CallKeys : promise[i] = "Request timed out"
    /\ \E k \in DOMAIN subscriptions : subscriptions[k].status = Subscribing
    /\ \E k \in DOMAIN heartbeats : heartbeats[k].intervalID = [armed |-> TRUE, left |-> 0]

---------------------------------------------------------------------------
(* Properties of the settlement of a call *)

\* A promise that is settled stays as it is, and a frame that carries the id
\* of a call that is out of the registry reports no progress on it.
settledOnce ==
    \A i \in CallKeys :
        /\ promise[i] \notin {"none", "pending"} => promise'[i] = promise[i]
        /\ i \notin callbacks =>
              /\ ~timeoutId'[i].armed \/ i \in callbacks'
              /\ \A j \in DOMAIN progressed' : progressed'[j][1] # i
        /\ (op' = "timeout" /\ promise'[i] # promise[i])
              => i \in callbacks /\ promise[i] = "pending" /\ i \notin callbacks'

\* C26 as stated: a call is settled at most once, the timeout of a call that
\* left the registry never fires, a frame for a call that timed out has no
\* effect on it, and every call in the registry has its timeout armed.
C26_OneArmedTimeoutEach ==
    [][/\ settledOnce
       /\ \A i \in CallKeys : timeoutId'[i].armed <=> i \in callbacks'
      ]_vars

\* C26, amended: the same, except that a call in the registry has its timeout
\* armed if and only if its configured timeout is not zero.
C26_SettledAtMostOnce ==
    [][/\ settledOnce
       /\ \A i \in CallKeys :
            timeoutId'[i].armed <=> (i \in callbacks' /\ callTimeout'[i] # 0)
      ]_vars

\* A Success frame arrived for a call that had timed out: the call stays
\* rejected with the timeout.
C26_Witness ==
    /\ op = "onmessage" /\ received[1].s = Some(Success)
    /\ \E i \in CallKeys : FrameFor(i) /\ TimedOut(i)

---------------------------------------------------------------------------
(* Properties of the consumers of a subscription *)

\* C27 as stated: the consumers of a subscription are ids of handles that
\* subscribe returned to the application, subscribe adds the id of its handle,
\* only leave removes an id, and when a leave removes the last consumer that
\* the application holds from a Subscribed subscription, the leave timer of
\* the subscription is armed.
C27_ConsumersAreHeldHandles ==
    [][\A k \in DOMAIN subscriptions' :
          LET held == {h.id : h \in {x \in handles' : x.k = k}}
              now  == subscriptions'[k].consumers
              was  == IF k \in DOMAIN subscriptions THEN subscriptions[k].consumers ELSE {}
          IN  /\ now \subseteq held
              /\ op' # "leave" => was \subseteq now
              /\ (op' = "subscribe" /\ returned'[1].k = k) => returned'[1].id \in now
              /\ (/\ op' = "leave" /\ was # now /\ now \cap held = {}
                  /\ subscriptions'[k].status = Subscribed)
                     => subscriptions'[k].leaveTimeout.armed
      ]_vars

---------------------------------------------------------------------------
(* Properties of a leave while the request is unanswered *)

\* C28 as stated: a subscription with no consumer and status Subscribed has
\* its leave timer pending, in particular when the only consumer left while
\* the status was Subscribing and the acknowledgment arrived afterwards.
C28_EmptySubscribedHasTimer ==
    \A k \in DOMAIN subscriptions :
        shouldLeave(subscriptions[k]) => subscriptions[k].leaveTimeout.armed

---------------------------------------------------------------------------
(* Properties of the sequence of subscribed-changed events *)

\* C29 as stated: the subscribed-changed events of a channel alternate,
\* starting with subscribed:true: every event carries the other value than
\* the event before it for the same channel, and whenever the last event of a
\* channel said true the status of its subscription is Subscribed.
C29_EventsAlternate ==
    [][\A c \in Channels :
          LET ev == {j \in DOMAIN emitted' : /\ emitted'[j].channelType = c.channel_type
                                             /\ emitted'[j].pk = c.pk}
              before(j) == {n \in ev : n < j}
              prev(j) == IF before(j) = {} THEN c \in announced
                         ELSE emitted'[CHOOSE n \in before(j) :
                                          \A m \in before(j) : m <= n].subscribed
          IN  /\ \A j \in ev : emitted'[j].subscribed # prev(j)
              /\ c \in announced' => statusOf(c)' = Subscribed
      ]_vars

---------------------------------------------------------------------------
(* Properties of a subscribe request that fails *)

\* C30 as stated: a subscription in status Subscribing has a channel.subscribe
\* call of its own pending in the registry, and the step in which that call
\* fails or times out while the connection stays Open leaves the subscription
\* in another status than Subscribing.
C30_SubscribingHasPendingCall ==
    [][\A k \in DOMAIN subscriptions' :
          /\ subscriptions'[k].status = Subscribing
                => \E i \in callbacks' : awaiting'[i] = Some(k)
          /\ (/\ \E i \in callbacks \ callbacks' :
                    awaiting[i] = Some(k) /\ promise'[i] \notin {"none", "pending", "resolved"}
              /\ _readyState' = "OPEN")
                => subscriptions'[k].status # Subscribing
      ]_vars

==========================================================================
